---- MODULE Spec2Model ----
(***************************************************************************)
(* Model of src/src/fs_node.rs: the FsNode tree (Rc<RefCell<FsNode>>       *)
(* children, Weak parent), its operations new, add_child, find_node,       *)
(* remove_node and the recursive builder create_node_from_path.            *)
(*                                                                         *)
(* The heap is a sequence of node records; a node's address is its index.  *)
(* A node is either a plain FsNode value owned by the caller (rc = FALSE)  *)
(* or lives in an Rc<RefCell<..>> allocation (rc = TRUE).  Option<T> is    *)
(* the empty sequence (None) or a one-element sequence (Some).             *)
(***************************************************************************)
EXTENDS Integers, Sequences, FiniteSets, TLC

VARIABLES heap, borrow, last

vars == <<heap, borrow, last>>

\* ---------------------------------------------------------------- bounds
\* calls of FsNode::new, and handles the caller lets go of
MaxNew == 1
MaxDrop == 1
\* longest children vector a caller hands to the raw constructor
MaxArgChildren == 1
\* RefCell guards the caller keeps alive at once (SpecB)
MaxBorrows == 1

\* ---------------------------------------------------------------- Option
None == <<>>
Some(v) == <<v>>

File == "File"
Directory == "Directory"
FsNodeType == {File, Directory}

\* ------------------------------------------------------- the file system
\* A path is the sequence of its components.
NonText == "\\xFF"
TmpDir == <<"tmp">>
File1 == <<"tmp", "file1.txt">>
SubDir == <<"tmp", "subdir">>
Nested == <<"tmp", "subdir", "nested">>
File4 == <<"tmp", "subdir", "nested", "file4.txt">>
BadName == <<"tmp", NonText>>
NewFile == <<"tmp", "new_file.txt">>
Missing == <<"tmp", "non_existent.txt">>

\* what the file system holds at a path
FsKind(path) ==
  CASE path = TmpDir -> "dir"
    [] path = File1 -> "file"
    [] path = SubDir -> "dir"
    [] path = Nested -> "dir"
    [] path = File4 -> "file"
    [] path = BadName -> "file"
    [] OTHER -> "missing"

\* the entries a directory holds; ok = FALSE is an entry whose read fails
FsEntries(path) ==
  CASE path = TmpDir -> {[ok |-> TRUE, path |-> File1], [ok |-> TRUE, path |-> SubDir],
                         [ok |-> TRUE, path |-> BadName]}
    [] path = SubDir -> {[ok |-> TRUE, path |-> Nested], [ok |-> FALSE, path |-> SubDir \o <<"stale">>]}
    [] path = Nested -> {[ok |-> TRUE, path |-> File4]}
    [] OTHER -> {}

\* directories whose enumeration succeeds; tmp/subdir/nested denies it
Readable == {TmpDir, SubDir}

file_name_unchecked(path) == IF path = <<>> THEN None ELSE Some(path[Len(path)])

\* Path::file_name: None for the empty path and for a path ending in ".."
file_name(path) ==
  IF path = <<>> THEN None
  ELSE IF path[Len(path)] = ".." THEN None
  ELSE Some(path[Len(path)])

to_string_lossy(os) == Some(os)

\* OsStr::to_str: None when the component is not valid UTF-8
to_str(os) == IF os = NonText THEN None ELSE Some(os)

\* Path::is_file
is_file(path) == FsKind(path) = "file"

\* std::fs::read_dir: Ok exactly for a readable directory
read_dir_ok(path) == path \in Readable

Perms(S) == {f \in [1..Cardinality(S) -> S] : \A x \in S : \E i \in DOMAIN f : f[i] = x}

\* an enumeration order for every readable directory (platform dependent)
Orders == {o \in [Readable -> UNION {Perms(FsEntries(d)) : d \in Readable}] :
             \A d \in Readable : o[d] \in Perms(FsEntries(d))}

\* ------------------------------------------------------------------ heap
\* FsNode::new; made marks a node the caller constructed (bookkeeping of the model)
FsNode_new(name, path, fs_node_type, parent, children) ==
  [name |-> name, path |-> path, node_type |-> fs_node_type,
   parent |-> parent, children |-> children, rc |-> FALSE, alive |-> TRUE,
   made |-> TRUE]

\* a node the builder made, not the caller
built(node) == [node EXCEPT !.made = FALSE]

\* Rc::new(RefCell::new(node))
rc_new(node) == [node EXCEPT !.rc = TRUE]

\* Weak::upgrade: the allocation while it is alive, None once it was freed
upgrade(h, weak) ==
  IF weak = None THEN None
  ELSE IF h[weak[1]].alive THEN weak ELSE None

push_front(h, p, child) == [h EXCEPT ![p].children = <<child>> \o @]

push_twice(h, p, child) == [h EXCEPT ![p].children = Append(Append(@, child), child)]

\* Vec::push on the children of node p
push(h, p, child) == [h EXCEPT ![p].children = Append(@, child)]

vec_pop(s, position) == SubSeq(s, 1, Len(s) - 1)

vec_swap_remove(s, position) ==
  [j \in 1..(Len(s) - 1) |-> IF j = position THEN s[Len(s)] ELSE s[j]]

\* Vec::remove(position), positions counted from 1
vec_remove(s, position) == SubSeq(s, 1, position - 1) \o SubSeq(s, position + 1, Len(s))

\* the call the caller made last, its result and the heap it was made on
Call(op, self, path, fs_node_type, ret, panic, old) ==
  [op |-> op, self |-> self, path |-> path, fs_node_type |-> fs_node_type,
   ret |-> ret, panic |-> panic, old |-> old]

Idle == Call("idle", 0, <<>>, None, None, FALSE, <<>>)

Init ==
  /\ heap = <<>>
  /\ borrow = {}
  /\ last = Idle

\* ---------------------------------------------------------------- RefCell
\* RefCell::borrow_mut panics while the cell is borrowed at all
borrow_mut_panics(b, n) == <<n, "mut">> \in b \/ <<n, "shared">> \in b

borrow_panics_when_shared(b, n) == <<n, "mut">> \in b \/ <<n, "shared">> \in b

\* RefCell::borrow panics while the cell is mutably borrowed
borrow_panics(b, n) == <<n, "mut">> \in b

\* ------------------------------------------------------------- operations
matches_path_only(node, path, fs_node_type) == node.path = path

\* the closure of find_node and of remove_node
matches(node, path, fs_node_type) ==
  /\ node.path = path
  /\ (fs_node_type = None \/ fs_node_type = Some(node.node_type))

\* Iterator::find_map over the children from position i on
RECURSIVE find_map(_, _, _, _, _, _)
find_map(h, b, children, i, path, fs_node_type) ==
  IF i > Len(children) THEN [ret |-> None, panic |-> FALSE]
  ELSE IF borrow_panics(b, children[i]) THEN [ret |-> None, panic |-> TRUE]
  ELSE IF matches(h[children[i]], path, fs_node_type)
       THEN [ret |-> Some(children[i]), panic |-> FALSE]
  ELSE find_map(h, b, children, i + 1, path, fs_node_type)

\* FsNode::find_node
find_node(h, b, self, path, fs_node_type) ==
  find_map(h, b, h[self].children, 1, path, fs_node_type)

\* Iterator::position over the children from position i on
RECURSIVE position(_, _, _, _, _, _)
position(h, b, children, i, path, fs_node_type) ==
  IF i > Len(children) THEN [ret |-> None, panic |-> FALSE]
  ELSE IF borrow_panics(b, children[i]) THEN [ret |-> None, panic |-> TRUE]
  ELSE IF matches(h[children[i]], path, fs_node_type)
       THEN [ret |-> Some(i), panic |-> FALSE]
  ELSE position(h, b, children, i + 1, path, fs_node_type)

\* FsNode::remove_node
remove_node(h, b, self, path, fs_node_type) ==
  LET pos == position(h, b, h[self].children, 1, path, fs_node_type) IN
  IF pos.panic THEN [heap |-> h, ret |-> None, panic |-> TRUE]
  ELSE IF pos.ret # None
       THEN [heap |-> [h EXCEPT ![self].children = vec_remove(@, pos.ret[1])],
             ret |-> Some(h[self].children[pos.ret[1]]), panic |-> FALSE]
  ELSE [heap |-> h, ret |-> None, panic |-> FALSE]

keep_parent(h, child, parent) == h

\* child.borrow_mut().parent = Some(Rc::downgrade(parent))
set_parent(h, child, parent) == [h EXCEPT ![child].parent = Some(parent)]

\* FsNode::add_child; the child value moves into a new Rc allocation, which the
\* unwinding frees when parent.borrow_mut() panics
add_child(h, b, parent, child) ==
  LET h1 == [h EXCEPT ![child] = rc_new(@)]
      h2 == set_parent(h1, child, parent)
  IN IF borrow_mut_panics(b, parent)
     THEN [heap |-> [h2 EXCEPT ![child].alive = FALSE], panic |-> TRUE]
     ELSE [heap |-> push(h2, parent, child), panic |-> FALSE]

\* the node type create_node_from_path gives a path
classify(path) == IF is_file(path) THEN File ELSE Directory

\* FsNode::create_node_from_path and its loop over the directory's entries
RECURSIVE create_node_from_path(_, _, _, _)
RECURSIVE for_entries(_, _, _, _, _)

for_entries(h, node_rc, entries, i, ord) ==
  IF i > Len(entries) THEN h
  ELSE IF ~entries[i].ok THEN for_entries(h, node_rc, entries, i + 1, ord)
  ELSE LET r == create_node_from_path(h, entries[i].path, Some(node_rc), ord) IN
       IF r.node = None THEN for_entries(r.heap, node_rc, entries, i + 1, ord)
       ELSE for_entries(push(r.heap, node_rc, r.node[1]), node_rc, entries, i + 1, ord)

create_node_from_path(h, path, parent, ord) ==
  IF file_name(path) = None THEN [heap |-> h, node |-> None]
  ELSE IF to_str(file_name(path)[1]) = None THEN [heap |-> h, node |-> None]
  ELSE LET name == to_str(file_name(path)[1])[1]
           node_type == classify(path)
           node_rc == Len(h) + 1
           h1 == Append(h, built(rc_new(FsNode_new(name, path, node_type, parent, <<>>))))
       IN IF node_type = Directory /\ read_dir_ok(path)
          THEN [heap |-> for_entries(h1, node_rc, ord[path], 1, ord), node |-> Some(node_rc)]
          ELSE [heap |-> h1, node |-> Some(node_rc)]

\* ------------------------------------------------------------ the caller
AliveIn(h) == {n \in 1..Len(h) : h[n].alive}
Alive == AliveIn(heap)
Handles == {n \in Alive : heap[n].rc}
Values == {n \in Alive : ~heap[n].rc}
Made == {n \in 1..Len(heap) : heap[n].made}
\* alive nodes no alive node holds in its children
Roots == {n \in Alive : \A m \in Alive : \A i \in DOMAIN heap[m].children :
            heap[m].children[i] # n}

Filters == {None, Some(File), Some(Directory)}
QueryPaths == {File1, SubDir, Nested}
BuildPaths == {<<>>, TmpDir, Missing, <<"tmp", "..">>, <<NonText>>}
NewArgs == {<<"new_file.txt", NewFile, File>>, <<"file1.txt", File1, Directory>>}
WeakArgs == {None} \cup {Some(n) : n \in Handles \cap Roots}
ChildArgs == UNION {[1..k -> Handles \cap Roots] : k \in 0..MaxArgChildren}

\* the caller constructs a node value
New(newArgs, childArgs) ==
  /\ last.op = "idle"
  /\ Cardinality(Made) < MaxNew
  /\ \E a \in newArgs, parent \in WeakArgs, children \in childArgs :
       /\ heap' = Append(heap, FsNode_new(a[1], a[2], a[3], parent, children))
       /\ last' = Call("new", Len(heap) + 1, a[2], Some(a[3]), Some(Len(heap) + 1),
                       FALSE, heap)
  /\ UNCHANGED borrow

\* the caller moves a node value into an Rc<RefCell<FsNode>>
Wrap ==
  /\ last.op = "idle"
  /\ \E n \in Values :
       /\ heap' = [heap EXCEPT ![n] = rc_new(@)]
       /\ last' = Call("rc_new", n, heap[n].path, None, Some(n), FALSE, heap)
  /\ UNCHANGED borrow

AddChild ==
  /\ last.op = "idle"
  /\ \E parent \in Handles, child \in Values :
       LET r == add_child(heap, borrow, parent, child) IN
       /\ heap' = r.heap
       /\ last' = Call("add_child", parent, heap[child].path, None, Some(child),
                       r.panic, heap)
  /\ UNCHANGED borrow

\* &mut self: the caller owns the value, holds the RefMut or takes one for the call
CanMut(n) == <<n, "shared">> \notin borrow

FindNode(paths, filters) ==
  /\ last.op = "idle"
  /\ \E self \in Alive, path \in paths, t \in filters :
       /\ CanMut(self)
       /\ LET r == find_node(heap, borrow, self, path, t) IN
          last' = Call("find_node", self, path, t, r.ret, r.panic, heap)
  /\ UNCHANGED <<heap, borrow>>

RemoveNode(paths, filters) ==
  /\ last.op = "idle"
  /\ \E self \in Alive, path \in paths, t \in filters :
       /\ CanMut(self)
       /\ LET r == remove_node(heap, borrow, self, path, t) IN
          /\ heap' = r.heap
          /\ last' = Call("remove_node", self, path, t, r.ret, r.panic, heap)
  /\ UNCHANGED borrow

\* the caller builds its tree first, with no parent for the root
Build(paths) ==
  /\ last.op = "idle"
  /\ heap = <<>>
  /\ \E path \in paths, ord \in Orders :
       LET r == create_node_from_path(heap, path, None, ord) IN
       /\ heap' = r.heap
       /\ last' = Call("create_node_from_path", 0, path, None, r.node, FALSE, heap)
  /\ UNCHANGED borrow

\* the caller drops its last handle to a node nothing else owns: the allocation
\* is freed and its children vector released
Drop ==
  /\ last.op = "idle"
  /\ Cardinality(DOMAIN heap \ Alive) < MaxDrop
  /\ \E n \in Roots :
       /\ ~borrow_mut_panics(borrow, n)
       /\ heap' = [heap EXCEPT ![n].alive = FALSE, ![n].children = <<>>]
       /\ last' = Call("drop", n, heap[n].path, None, None, FALSE, heap)
  /\ UNCHANGED borrow

\* the caller takes h.borrow() or h.borrow_mut() and keeps the guard
Borrow ==
  /\ last.op = "idle"
  /\ Cardinality(borrow) < MaxBorrows
  /\ \E n \in Handles, m \in {"shared", "mut"} :
       /\ ~borrow_mut_panics(borrow, n)
       /\ borrow' = borrow \cup {<<n, m>>}
  /\ UNCHANGED <<heap, last>>

\* the caller lets a guard go
Release ==
  /\ last.op = "idle"
  /\ \E g \in borrow : borrow' = borrow \ {g}
  /\ UNCHANGED <<heap, last>>

\* the call has returned and the caller goes on; after a panic it never does
Return ==
  /\ last.op # "idle"
  /\ ~last.panic
  /\ last' = Idle
  /\ UNCHANGED <<heap, borrow>>

\* the caller builds a tree and works on it with nodes it constructs empty
Next ==
  \/ Return \/ New(NewArgs, {<<>>}) \/ AddChild \/ FindNode(QueryPaths, Filters)
  \/ RemoveNode(QueryPaths, Filters) \/ Build(BuildPaths)

Spec == Init /\ [][Next]_vars

\* the caller also hands children to the raw constructor, wraps values itself
\* and lets handles go
NextRaw ==
  \/ Return \/ New({<<"file1.txt", File1, Directory>>}, ChildArgs) \/ Wrap \/ AddChild
  \/ RemoveNode({File1, SubDir}, {None}) \/ Build({TmpDir, Missing}) \/ Drop

SpecRaw == Init /\ [][NextRaw]_vars

\* the caller keeps RefCell guards across calls
NextB ==
  \/ Return \/ New({<<"new_file.txt", NewFile, File>>}, {<<>>}) \/ AddChild
  \/ FindNode({File1, SubDir}, {None}) \/ RemoveNode({File1}, {None}) \/ Build({TmpDir})
  \/ Borrow \/ Release

SpecB == Init /\ [][NextB]_vars

\* ------------------------------------------------------------ properties
\* the nodes the last call allocated
NewNodes == (Len(last.old) + 1)..Len(heap)

\* the positions, among the children self has in heap h, of the nodes that carry the
\* path of the last call and, when the call gave a kind, that kind
Hits(h, self) ==
  {i \in DOMAIN h[self].children :
     /\ h[h[self].children[i]].path = last.path
     /\ (last.fs_node_type = None
         \/ last.fs_node_type[1] = h[h[self].children[i]].node_type)}

\* a path with a final component that is text
Nameable(path) ==
  /\ path # <<>>
  /\ path[Len(path)] # ".."
  /\ path[Len(path)] # NonText

\* the entries of a directory that are read without error and can be named
GoodEntries(path) == {e \in FsEntries(path) : e.ok /\ Nameable(e.path)}

\* C1: find_node returns a handle exactly when some direct child has the path and,
\* if a kind is given, the kind; the handle is then the first such child in children
\* order; a path held only by a grandchild gives nothing.
FindNodeExact ==
  (last.op = "find_node" /\ ~last.panic) =>
    LET ch == heap[last.self].children
        hits == Hits(heap, last.self)
    IN /\ (last.ret # None) <=> (hits # {})
       /\ last.ret # None =>
            \E i \in hits : last.ret[1] = ch[i] /\ \A j \in hits : i <= j

\* find_node was asked for a path that only a grandchild holds and returned nothing
FindNodeGrandchildOnly ==
  /\ last.op = "find_node"
  /\ last.ret = None
  /\ \E i \in DOMAIN heap[last.self].children :
       \E j \in DOMAIN heap[heap[last.self].children[i]].children :
         heap[heap[heap[last.self].children[i]].children[j]].path = last.path

\* C2 as claimed: after remove_node succeeds the children count is one less, the
\* removed node has the path and kind asked for, and find_node for the same path and
\* kind on the same parent returns nothing.
RemoveThenFindNothing ==
  (last.op = "remove_node" /\ last.ret # None) =>
    /\ Len(heap[last.self].children) = Len(last.old[last.self].children) - 1
    /\ heap[last.ret[1]].path = last.path
    /\ (last.fs_node_type = None \/ last.fs_node_type[1] = heap[last.ret[1]].node_type)
    /\ find_node(heap, borrow, last.self, last.path, last.fs_node_type).ret = None

\* C2 amended: as claimed, the following find_node returning nothing whenever the
\* removed node was the only direct child that satisfied the request.
RemoveEffect ==
  (last.op = "remove_node" /\ last.ret # None) =>
    /\ Len(heap[last.self].children) = Len(last.old[last.self].children) - 1
    /\ heap[last.ret[1]].path = last.path
    /\ (last.fs_node_type = None \/ last.fs_node_type[1] = heap[last.ret[1]].node_type)
    /\ Cardinality(Hits(last.old, last.self)) = 1 =>
         find_node(heap, borrow, last.self, last.path, last.fs_node_type).ret = None

\* remove_node took the only matching child out of a parent with several children
RemoveEffectWitness ==
  /\ last.op = "remove_node"
  /\ last.ret # None
  /\ Len(last.old[last.self].children) >= 2
  /\ Cardinality(Hits(last.old, last.self)) = 1

\* C3: after add_child the parent's children are its previous children with the child
\* appended as the last element, and the child's parent reference resolves to the
\* parent.
AddChildAppends ==
  (last.op = "add_child" /\ ~last.panic) =>
    /\ heap[last.self].children = Append(last.old[last.self].children, last.ret[1])
    /\ upgrade(heap, heap[last.ret[1]].parent) = Some(last.self)

\* add_child attached, to a parent that had children, a child constructed with a
\* reference to another parent
AddChildWitness ==
  /\ last.op = "add_child"
  /\ last.old[last.self].children # <<>>
  /\ last.old[last.ret[1]].parent # None
  /\ last.old[last.ret[1]].parent # Some(last.self)

\* every node some alive node holds in its children has a parent reference that
\* resolves to that node
ParentConsistent(h) ==
  \A m \in AliveIn(h) : \A i \in DOMAIN h[m].children :
    upgrade(h, h[h[m].children[i]].parent) = Some(m)

\* C4 as claimed: after a build and any sequence of construct, add_child and
\* remove_node calls every node contained in a children collection has a parent
\* reference that resolves to exactly the containing node.
ParentConsistency == ParentConsistent(heap)

\* C4 amended: every call keeps the parent references consistent, except a construct
\* call that is given a children collection that is not empty.
ParentConsistencyKept ==
  (/\ last.op # "idle"
   /\ ParentConsistent(last.old)
   /\ ~(last.op = "new" /\ heap[last.self].children # <<>>)) =>
    ParentConsistent(heap)

\* add_child attached a child constructed without a reference to this parent, below
\* the root of a consistent tree
ParentConsistencyWitness ==
  /\ last.op = "add_child"
  /\ last.old[last.ret[1]].parent # Some(last.self)
  /\ heap[last.self].parent # None
  /\ ParentConsistent(heap)

\* C5: remove_node removes and returns the first direct child that satisfies the
\* request; the children afterwards are the previous sequence with that one element
\* deleted; the removed node keeps its own children.
StableRemoval ==
  (last.op = "remove_node" /\ last.ret # None /\ ~last.panic) =>
    LET och == last.old[last.self].children
        ch == heap[last.self].children
        hits == Hits(last.old, last.self)
    IN \E i \in hits :
         /\ \A j \in hits : i <= j
         /\ last.ret[1] = och[i]
         /\ Len(ch) = Len(och) - 1
         /\ \A j \in DOMAIN ch : ch[j] = och[IF j < i THEN j ELSE j + 1]
         /\ heap[last.ret[1]].children = last.old[last.ret[1]].children

\* remove_node took a node that has children out of three, and not the last one
StableRemovalWitness ==
  /\ last.op = "remove_node"
  /\ last.ret # None
  /\ Len(last.old[last.self].children) >= 3
  /\ last.old[last.self].children[Len(last.old[last.self].children)] # last.ret[1]
  /\ heap[last.ret[1]].children # <<>>

\* no alive node has two direct children with the same path
SiblingUnique(h) ==
  \A m \in AliveIn(h) : \A i, j \in DOMAIN h[m].children :
    h[h[m].children[i]].path = h[h[m].children[j]].path => i = j

\* C6 as claimed: after a build and any sequence of add_child and remove_node calls no
\* node has two direct children with the same path.
SiblingPathsUnique == SiblingUnique(heap)

\* C6 amended: every call keeps sibling paths unique, except an add_child whose
\* child carries the path of a node the parent already holds.
SiblingPathsUniqueKept ==
  (/\ last.op # "idle"
   /\ SiblingUnique(last.old)
   /\ ~(/\ last.op = "add_child"
        /\ \E i \in DOMAIN last.old[last.self].children :
             last.old[last.old[last.self].children[i]].path = last.path)) =>
    SiblingUnique(heap)

\* add_child gave the built root a third child, with a path of its own
SiblingPathsUniqueWitness ==
  /\ last.op = "add_child"
  /\ Len(heap[last.self].children) >= 3
  /\ SiblingUnique(heap)

\* C7: every node the builder produces is a Directory exactly when its path exists
\* as a directory in the file system, and a File otherwise.
KindFollowsDirectory ==
  last.op = "create_node_from_path" =>
    \A n \in NewNodes : (heap[n].node_type = Directory) <=> (FsKind(heap[n].path) = "dir")

\* C8 as claimed: the root built from a directory with N entries has exactly N
\* children, one per entry.
RoundTripAllEntries ==
  (last.op = "create_node_from_path" /\ last.ret # None /\ FsKind(last.path) = "dir") =>
    LET ch == heap[last.ret[1]].children IN
    /\ Len(ch) = Cardinality(FsEntries(last.path))
    /\ \A e \in FsEntries(last.path) :
         Cardinality({i \in DOMAIN ch : heap[ch[i]].path = e.path}) = 1

\* C8 amended: the root built from a directory whose enumeration succeeds has exactly
\* one child per entry that is read without error and has a text name, and no other
\* child, whatever the enumeration order.
RoundTripNamedEntries ==
  (/\ last.op = "create_node_from_path"
   /\ last.ret # None
   /\ FsKind(last.path) = "dir"
   /\ last.path \in Readable) =>
    LET ch == heap[last.ret[1]].children IN
    /\ Len(ch) = Cardinality(GoodEntries(last.path))
    /\ \A e \in GoodEntries(last.path) :
         Cardinality({i \in DOMAIN ch : heap[ch[i]].path = e.path}) = 1

\* the builder returned the root of tmp, which holds three entries, with two children
RoundTripWitness ==
  /\ last.op = "create_node_from_path"
  /\ last.path = TmpDir
  /\ last.ret # None
  /\ Len(heap[last.ret[1]].children) = 2

\* C9: the builder returns no node exactly when the root path has no final component
\* or one that is not text; below the root a directory whose enumeration fails is a
\* node without children, and a directory's children are exactly the entries that
\* are read and can be named.
BuilderContainment ==
  last.op = "create_node_from_path" =>
    /\ (last.ret = None) <=> ~Nameable(last.path)
    /\ \A n \in NewNodes :
         /\ heap[n].path \notin Readable => heap[n].children = <<>>
         /\ heap[n].path \in Readable =>
              \A e \in FsEntries(heap[n].path) :
                (e.ok /\ Nameable(e.path)) <=>
                  \E i \in DOMAIN heap[n].children :
                    heap[heap[n].children[i]].path = e.path

\* the builder returned a tree that holds the unreadable directory without children
\* and file1.txt beside the entry it could not name
BuilderContainmentWitness ==
  /\ last.op = "create_node_from_path"
  /\ last.ret # None
  /\ \E n \in NewNodes : heap[n].path = Nested /\ heap[n].children = <<>>
  /\ \E n \in NewNodes : heap[n].path = File1
  /\ \A n \in NewNodes : heap[n].path # BadName

====
